---- MODULE Spec2Model ----
(***************************************************************************)
(* Model of the autonomous ingestion pipeline: the field normalizer, the   *)
(* type detector, the metadata store, the placement engine, the pipeline   *)
(* orchestrator and the two backend adapters.                              *)
(***************************************************************************)
EXTENDS Integers, Sequences, FiniteSets, TLC

\* ------------------------------------------------------------------------
\* Bounds of the model
\* ------------------------------------------------------------------------

\* ingest_record calls of a pipeline started without a metadata file; five
\* records with two spellings of one key bring it to MIN_OBSERVATIONS
MaxRecords == 5

\* ingest_record calls of a pipeline started from a metadata file
MaxLoadedRecords == 4

\* ingest_record calls in the runs that exercise the two backends
MaxBackendRecords == 3

\* direct calls of SQLManager.insert_record (as test_sql.py makes them)
MaxDirect == 1

\* wall clock readings range over 0..MaxClock
MaxClock == 1

\* document inserts that fail for a reason outside the program
MaxFaults == 1

\* threads that call MetadataStore.update_field_stats
MaxFeeders == 2

\* ingest_record calls of the pipeline whose placement engine fails
MaxCadenceRecords == 10

\* ingest_record calls, pipeline starts after the first, and kills of the
\* process, in the runs with restarts
MaxRestartRecords == 3
MaxStarts == 2
MaxCrashes == 1

\* calls of the store by those threads
MaxStoreCalls == 2

\* ingest_record calls on a store with fields placed in each backend
MaxSplitRecords == 3

\* ingest_record calls with records of one raw key
MaxKeyRecords == 1

\* direct calls of add_column_if_not_exists
MaxColumnCalls == 3

\* total_batches of consume_continuous
MaxBatches == 2

\* the lines the stream of one batch gives
MaxLines == 2

\* ------------------------------------------------------------------------
\* Program constants
\* ------------------------------------------------------------------------

\* PlacementHeuristics.MIN_OBSERVATIONS
MIN_OBSERVATIONS == 10

\* PlacementHeuristics.MODERATE_DRIFT_THRESHOLD, as a percentage
MODERATE_DRIFT_THRESHOLD == 25

\* the bound on sample_values in MetadataStore.update_field_stats
MaxSamples == 5

\* ingest_record saves the metadata when total_processed is a multiple of it
SaveEvery == 10

\* PlacementHeuristics.decide_placement / IngestionPipeline._split_by_placement
mandatory_fields == {"username", "sys_ingested_at", "t_stamp"}

\* ------------------------------------------------------------------------
\* FieldNormalizer.normalize, on strings
\* ------------------------------------------------------------------------

UpperChars ==
    <<"A","B","C","D","E","F","G","H","I","J","K","L","M",
      "N","O","P","Q","R","S","T","U","V","W","X","Y","Z">>

LowerChars ==
    <<"a","b","c","d","e","f","g","h","i","j","k","l","m",
      "n","o","p","q","r","s","t","u","v","w","x","y","z">>

DigitChars == {"0","1","2","3","4","5","6","7","8","9"}

Ch(s, i) == SubSeq(s, i, i)

IsUpper(c) == \E k \in 1..26 : UpperChars[k] = c

IsLower(c) == \E k \in 1..26 : LowerChars[k] = c

IsDigit(c) == c \in DigitChars

\* str.lower() on one character
LowerChar(c) ==
    IF IsUpper(c) THEN LowerChars[CHOOSE k \in 1..26 : UpperChars[k] = c] ELSE c

\* the last index of the run of lower-case letters that starts at index i
RECURSIVE LowerRunEnd(_, _)
LowerRunEnd(s, i) ==
    IF i + 1 <= Len(s) /\ IsLower(Ch(s, i + 1)) THEN LowerRunEnd(s, i + 1) ELSE i

\* re.sub('(.)([A-Z][a-z]+)', r'\1_\2', s), scanning from index i
RECURSIVE SubCamel1(_, _)
SubCamel1(s, i) ==
    IF i > Len(s) THEN ""
    ELSE IF i + 2 <= Len(s) /\ IsUpper(Ch(s, i + 1)) /\ IsLower(Ch(s, i + 2))
         THEN LET e == LowerRunEnd(s, i + 2)
              IN  Ch(s, i) \o "_" \o SubSeq(s, i + 1, e) \o SubCamel1(s, e + 1)
         ELSE Ch(s, i) \o SubCamel1(s, i + 1)

\* re.sub('([a-z0-9])([A-Z])', r'\1_\2', s), scanning from index i
RECURSIVE SubCamel2(_, _)
SubCamel2(s, i) ==
    IF i > Len(s) THEN ""
    ELSE IF i + 1 <= Len(s) /\ (IsLower(Ch(s, i)) \/ IsDigit(Ch(s, i)))
                            /\ IsUpper(Ch(s, i + 1))
         THEN Ch(s, i) \o "_" \o Ch(s, i + 1) \o SubCamel2(s, i + 2)
         ELSE Ch(s, i) \o SubCamel2(s, i + 1)

\* str.lower()
RECURSIVE Lower(_)
Lower(s) == IF s = "" THEN "" ELSE LowerChar(Ch(s, 1)) \o Lower(Tail(s))

\* re.sub('_+', '_', s)
RECURSIVE CollapseUnderscores(_)
CollapseUnderscores(s) ==
    IF Len(s) <= 1 THEN s
    ELSE IF Ch(s, 1) = "_" /\ Ch(s, 2) = "_" THEN CollapseUnderscores(Tail(s))
         ELSE Ch(s, 1) \o CollapseUnderscores(Tail(s))

RECURSIVE StripLeft(_)
StripLeft(s) == IF s # "" /\ Ch(s, 1) = "_" THEN StripLeft(Tail(s)) ELSE s

RECURSIVE StripRight(_)
StripRight(s) ==
    IF s # "" /\ Ch(s, Len(s)) = "_" THEN StripRight(SubSeq(s, 1, Len(s) - 1)) ELSE s

\* str.strip('_')
StripUnderscores(s) == StripRight(StripLeft(s))

\* the strings made of one string of A followed by one string of B
Cat(A, B) == {a \o b : a \in A, b \in B}

\* the language of (_?addr(ess)?)?
AddrSuffix == {"", "addr", "_addr", "address", "_address"}

\* semantic_patterns, in the order of the dictionary: the language of each
\* anchored pattern (every pattern is finite) and the canonical name
semantic_patterns ==
    << <<Cat({"ip"}, AddrSuffix), "ip_address">>,
       <<Cat({"ipv4"}, AddrSuffix), "ip_address">>,
       <<{"user", "username", "user_name"}, "username">>,
       <<{"user_id"}, "user_id">>,
       <<Cat(Cat({"", "e", "_", "e_"}, {"mail"}), AddrSuffix), "email">>,
       <<Cat({"phone", "tel", "telephone"},
             {"", "num", "_num", "number", "_number"}), "phone">>,
       <<{"stamp", "_stamp", "timestamp", "time_stamp"}, "timestamp">>,
       <<{"tstamp", "t_stamp"}, "timestamp">>,
       <<{"created", "createdat", "created_at"}, "created_at">>,
       <<{"updated", "updatedat", "updated_at"}, "updated_at">>,
       <<Cat({"", "gps", "gps_"}, {"lat", "latitude"}), "gps_lat">>,
       <<Cat({"", "gps", "gps_"}, {"lon", "long", "longitude"}), "gps_lon">>,
       <<Cat(Cat({"dev", "device"}, {"", "_"}), {"id"}), "device_id">>,
       <<Cat(Cat({"dev", "device"}, {"", "_"}), {"model"}), "device_model">>,
       <<Cat(Cat({"sess", "session"}, {"", "_"}), {"id"}), "session_id">>,
       <<{"net", "network"}, "network">>,
       <<Cat({"bat", "battery"}, {"", "level", "_level"}), "battery">>,
       <<{"os", "osname", "os_name"}, "os">>,
       <<{"operatingsystem", "operating_system"}, "os">>,
       <<{"appversion", "app_version"}, "app_version">>,
       <<{"ver", "version"}, "version">> >>

\* the loop over compiled_patterns returning a name that is not in
\* normal form
ApplySemantic_capital(s, k) ==
    IF \E i \in 1..Len(semantic_patterns) : s \in semantic_patterns[i][1]
    THEN "X" \o semantic_patterns[
             CHOOSE i \in 1..Len(semantic_patterns) :
                 /\ s \in semantic_patterns[i][1]
                 /\ \A j \in 1..(i - 1) : s \notin semantic_patterns[j][1]][2]
    ELSE s

\* the loop over compiled_patterns: the first pattern that matches wins
RECURSIVE ApplySemantic(_, _)
ApplySemantic(s, k) ==
    IF k > Len(semantic_patterns) THEN s
    ELSE IF s \in semantic_patterns[k][1] THEN semantic_patterns[k][2]
         ELSE ApplySemantic(s, k + 1)

\* FieldNormalizer.normalize
normalize(field_name) ==
    IF field_name = "" THEN field_name
    ELSE LET s1 == SubCamel1(field_name, 1)
             s2 == SubCamel2(s1, 1)
             s3 == Lower(s2)
             s4 == CollapseUnderscores(s3)
             s5 == StripUnderscores(s4)
         IN  ApplySemantic(s5, 1)

\* ------------------------------------------------------------------------
\* Values and records
\* ------------------------------------------------------------------------

\* A JSON value: py is its Python type, s is str(value), and form is, for a
\* string, the first pattern of TypeDetector the text matches
\* ("uuid", "ipv4", "ipv4_range", "email", "url", "iso", "plain", "empty").
StrV(s, form) == [py |-> "str", form |-> form, s |-> s]

IntV(s) == [py |-> "int", form |-> "-", s |-> s]

NoneV == [py |-> "NoneType", form |-> "-", s |-> "None"]

\* a list: s is str(value), js is json.dumps(value)
ListV(s, js) == [py |-> "list", form |-> "-", s |-> s, js |-> js]

\* the element of a set of one element; {F(v) : v \in {e}} computes e once
\* and hands its value to F
Only(S) == CHOOSE v \in S : TRUE

\* A dict in insertion order is a sequence of <<key, value>> pairs.
DictKeys(d) == {d[i][1] : i \in 1..Len(d)}

DictHas(d, k) == \E i \in 1..Len(d) : d[i][1] = k

DictGet(d, k) == d[CHOOSE i \in 1..Len(d) : d[i][1] = k][2]

\* d[k] = v
DictSet(d, k, v) ==
    IF DictHas(d, k)
    THEN [i \in 1..Len(d) |-> IF d[i][1] = k THEN <<k, v>> ELSE d[i]]
    ELSE Append(d, <<k, v>>)

\* TypeDetector.detect_type
detect_type(value) ==
    IF value.py = "NoneType" THEN "null"
    ELSE IF value.py = "bool" THEN "boolean"
    ELSE IF value.py = "int" THEN "integer"
    ELSE IF value.py = "float" THEN "float"
    ELSE IF value.py = "list" THEN "list"
    ELSE IF value.py = "dict" THEN "dict"
    ELSE IF value.py = "str" THEN
        IF value.form = "empty" THEN "string"
        ELSE IF value.form = "uuid" THEN "uuid"
        ELSE IF value.form = "ipv4" THEN "ip_address"
        ELSE IF value.form = "email" THEN "email"
        ELSE IF value.form = "url" THEN "url"
        ELSE IF value.form = "iso" THEN "timestamp"
        ELSE "string"
    ELSE "unknown"

\* TypeDetector.get_sql_type
get_sql_type(detected_type) ==
    CASE detected_type = "null" -> "TEXT"
      [] detected_type = "boolean" -> "BOOLEAN"
      [] detected_type = "integer" -> "INTEGER"
      [] detected_type = "float" -> "REAL"
      [] detected_type = "ip_address" -> "VARCHAR(15)"
      [] detected_type = "uuid" -> "VARCHAR(36)"
      [] detected_type = "email" -> "VARCHAR(255)"
      [] detected_type = "url" -> "TEXT"
      [] detected_type = "timestamp" -> "TIMESTAMP"
      [] detected_type = "string" -> "TEXT"
      [] OTHER -> "TEXT"

\* f"{n:06d}": at least six digits, zero padded
RECURSIVE ZeroPad(_, _)
ZeroPad(s, width) == IF Len(s) >= width THEN s ELSE ZeroPad("0" \o s, width)

Format06d(n) == ZeroPad(ToString(n), 6)

\* datetime.isoformat() of the clock reading t (t counts microseconds past
\* a fixed second; isoformat leaves the fraction out when it is zero)
isoformat(t) ==
    "2024-01-15T10:30:00" \o (IF t = 0 THEN "" ELSE "." \o Format06d(t))

\* str(value)[:100]
Truncate100(s) == IF Len(s) > 100 THEN SubSeq(s, 1, 100) ELSE s

\* ------------------------------------------------------------------------
\* MetadataStore: the operations on the dictionary self.metadata. Every
\* operator takes the dictionary md and yields the dictionary afterwards.
\* The wall-clock fields first_seen, last_seen, last_updated and
\* session_start are written but read by no operation; they are left out.
\* ------------------------------------------------------------------------

EmptyMap == [k \in {} |-> 0]

\* MetadataStore._initialize_metadata
initialize_metadata ==
    [fields |-> EmptyMap,
     normalization_rules |-> EmptyMap,
     placement_decisions |-> EmptyMap,
     total_records |-> 0]

\* MetadataStore.increment_total_records
\* increment_total_records doing nothing
increment_total_records_skipped(md) == md

increment_total_records(md) ==
    [md EXCEPT !.total_records = md.total_records + 1]

\* "value not in field_data['sample_values']": the samples are strings, so
\* only a string value can compare equal to one of them
ValueInSamples(value, samples) ==
    value.py = "str" /\ \E i \in 1..Len(samples) : samples[i] = value.s

\* the field record update_field_stats creates for a key it has not seen
NewField == [appearances |-> 0, type_counts |-> <<>>, sample_values |-> <<>>]

\* MetadataStore.update_field_stats, the body under the lock
update_field_stats(md, normalized_key, data_type, value) ==
    LET field_data == IF normalized_key \in DOMAIN md.fields
                      THEN md.fields[normalized_key] ELSE NewField
        counts == field_data.type_counts
        counts1 == IF DictHas(counts, data_type) THEN counts
                   ELSE DictSet(counts, data_type, 0)
        counts2 == DictSet(counts1, data_type, DictGet(counts1, data_type) + 1)
        samples == field_data.sample_values
        samples1 == IF Len(samples) < MaxSamples
                       /\ ~ValueInSamples(value, samples)
                    THEN Append(samples, Truncate100(value.s))
                    ELSE samples
        updated == [appearances |-> field_data.appearances + 1,
                    type_counts |-> counts2,
                    sample_values |-> samples1]
    IN  [md EXCEPT !.fields = (normalized_key :> updated) @@ md.fields]

\* MetadataStore.add_normalization_rule
add_normalization_rule(md, original_key, normalized_key) ==
    [md EXCEPT !.normalization_rules =
                   (original_key :> normalized_key) @@ md.normalization_rules]

\* MetadataStore.get_normalized_key
get_normalized_key(md, original_key) ==
    IF original_key \in DOMAIN md.normalization_rules
    THEN md.normalization_rules[original_key] ELSE original_key

\* MetadataStore.set_placement_decision; t is the reading of the clock
set_placement_decision(md, normalized_key, backend, reason, t) ==
    [md EXCEPT !.placement_decisions =
        (normalized_key :> [backend |-> backend, reason |-> reason,
                            decided_at |-> isoformat(t)])
        @@ md.placement_decisions]

\* sum(type_counts.values())
RECURSIVE SumCounts(_)
SumCounts(counts) ==
    IF counts = <<>> THEN 0 ELSE Head(counts)[2] + SumCounts(Tail(counts))

\* max(type_counts, key=type_counts.get): the first key, in insertion
\* order, that holds the largest count
DominantIndex(counts) ==
    CHOOSE i \in 1..Len(counts) :
        /\ \A j \in 1..Len(counts) : counts[j][2] <= counts[i][2]
        /\ \A j \in 1..(i - 1) : counts[j][2] < counts[i][2]

\* MetadataStore.get_field_frequency: the percentage
\* appearances / total_records * 100, as the fraction <<numerator, denominator>>
get_field_frequency(md, normalized_key) ==
    IF md.total_records = 0 THEN <<0, 1>>
    ELSE IF normalized_key \notin DOMAIN md.fields THEN <<0, 1>>
    ELSE <<md.fields[normalized_key].appearances * 100, md.total_records>>

\* MetadataStore.get_field_type_stability: the dominant type and the
\* stability percentage, the latter as <<numerator, denominator>>
get_field_type_stability(md, normalized_key) ==
    IF normalized_key \notin DOMAIN md.fields
       \/ md.fields[normalized_key].type_counts = <<>>
    THEN [dominant_type |-> "unknown", stability |-> <<0, 1>>]
    ELSE LET counts == md.fields[normalized_key].type_counts
             d == DominantIndex(counts)
         IN  [dominant_type |-> counts[d][1],
              stability |-> <<counts[d][2] * 100, SumCounts(counts)>>]

\* ------------------------------------------------------------------------
\* PlacementHeuristics
\* ------------------------------------------------------------------------

IsWordChar(c) == IsLower(c) \/ IsUpper(c) \/ IsDigit(c) \/ c = "_"

\* re.search(r'\bw\b', s) for a word w of letters
HasWord(s, w) ==
    \E i \in 1..(Len(s) - Len(w) + 1) :
        /\ SubSeq(s, i, i + Len(w) - 1) = w
        /\ (i = 1 \/ ~IsWordChar(Ch(s, i - 1)))
        /\ (i + Len(w) - 1 = Len(s) \/ ~IsWordChar(Ch(s, i + Len(w))))

\* len(set(sample_values))
DistinctCount(samples) == Cardinality({samples[i] : i \in 1..Len(samples)})

\* PlacementHeuristics.should_be_unique
should_be_unique(md, normalized_key) ==
    IF normalized_key \notin DOMAIN md.fields THEN FALSE
    ELSE LET field_lower == Lower(normalized_key)
             has_unique_name ==
                 \E w \in {"id", "uuid", "session", "key"} : HasWord(field_lower, w)
             dominant_type ==
                 get_field_type_stability(md, normalized_key).dominant_type
             has_unique_type == dominant_type \in {"uuid", "integer"}
             sample_values == md.fields[normalized_key].sample_values
             has_high_cardinality ==
                 /\ Len(sample_values) > 1
                 /\ 10 * DistinctCount(sample_values) > 9 * Len(sample_values)
         IN  IF normalized_key = "username" THEN FALSE
             ELSE has_unique_name /\ (has_unique_type \/ has_high_cardinality)

MandatoryReason(normalized_key) ==
    "Mandatory field '" \o normalized_key
        \o "' stored in both backends for join capability"

\* PlacementHeuristics.decide_placement at clock reading t. The result holds
\* the dictionary afterwards, the value returned and whether the call raised.
\* MetadataStore defines no get_field_stats, so the call at line 99 raises
\* AttributeError and nothing after it runs.
\* decide_placement without the check for an existing decision
decide_placement_unsticky(md, normalized_key, t) ==
    IF normalized_key \in mandatory_fields
    THEN [md |-> set_placement_decision(md, normalized_key, "Both",
                                        MandatoryReason(normalized_key), t),
          ret |-> "Both", raised |-> FALSE]
    ELSE IF normalized_key \notin DOMAIN md.fields
    THEN [md |-> md, ret |-> "MongoDB", raised |-> FALSE]
    ELSE IF md.fields[normalized_key].appearances < MIN_OBSERVATIONS
    THEN [md |-> md, ret |-> "MongoDB", raised |-> FALSE]
    ELSE [md |-> md, ret |-> "AttributeError", raised |-> TRUE]

\* decide_placement storing the deferred MongoDB placement as a decision
decide_placement_eager(md, normalized_key, t) ==
    IF normalized_key \in DOMAIN md.placement_decisions
    THEN [md |-> md, ret |-> md.placement_decisions[normalized_key].backend,
          raised |-> FALSE]
    ELSE IF normalized_key \in mandatory_fields
    THEN [md |-> set_placement_decision(md, normalized_key, "Both",
                                        MandatoryReason(normalized_key), t),
          ret |-> "Both", raised |-> FALSE]
    ELSE IF normalized_key \notin DOMAIN md.fields
            \/ md.fields[normalized_key].appearances < MIN_OBSERVATIONS
    THEN [md |-> set_placement_decision(md, normalized_key, "MongoDB", "deferred", t),
          ret |-> "MongoDB", raised |-> FALSE]
    ELSE [md |-> md, ret |-> "AttributeError", raised |-> TRUE]

\* decide_placement placing the mandatory fields in SQL alone
decide_placement_mandatory_sql(md, normalized_key, t) ==
    IF normalized_key \in DOMAIN md.placement_decisions
    THEN [md |-> md, ret |-> md.placement_decisions[normalized_key].backend,
          raised |-> FALSE]
    ELSE IF normalized_key \in mandatory_fields
    THEN [md |-> set_placement_decision(md, normalized_key, "SQL",
                                        MandatoryReason(normalized_key), t),
          ret |-> "SQL", raised |-> FALSE]
    ELSE IF normalized_key \notin DOMAIN md.fields
    THEN [md |-> md, ret |-> "MongoDB", raised |-> FALSE]
    ELSE IF md.fields[normalized_key].appearances < MIN_OBSERVATIONS
    THEN [md |-> md, ret |-> "MongoDB", raised |-> FALSE]
    ELSE [md |-> md, ret |-> "AttributeError", raised |-> TRUE]

\* decide_placement promoting a field stored as MongoDB to SQL
decide_placement_promotes(md, normalized_key, t) ==
    IF normalized_key \in DOMAIN md.placement_decisions
       /\ md.placement_decisions[normalized_key].backend # "MongoDB"
    THEN [md |-> md, ret |-> md.placement_decisions[normalized_key].backend,
          raised |-> FALSE]
    ELSE IF normalized_key \in DOMAIN md.placement_decisions
    THEN [md |-> set_placement_decision(md, normalized_key, "SQL", "promoted", t),
          ret |-> "SQL", raised |-> FALSE]
    ELSE IF normalized_key \in mandatory_fields
    THEN [md |-> set_placement_decision(md, normalized_key, "Both",
                                        MandatoryReason(normalized_key), t),
          ret |-> "Both", raised |-> FALSE]
    ELSE IF normalized_key \notin DOMAIN md.fields
    THEN [md |-> md, ret |-> "MongoDB", raised |-> FALSE]
    ELSE IF md.fields[normalized_key].appearances < MIN_OBSERVATIONS
    THEN [md |-> md, ret |-> "MongoDB", raised |-> FALSE]
    ELSE [md |-> md, ret |-> "AttributeError", raised |-> TRUE]

decide_placement(md, normalized_key, t) ==
    IF normalized_key \in DOMAIN md.placement_decisions
    THEN [md |-> md, ret |-> md.placement_decisions[normalized_key].backend,
          raised |-> FALSE]
    ELSE IF normalized_key \in mandatory_fields
    THEN [md |-> set_placement_decision(md, normalized_key, "Both",
                                        MandatoryReason(normalized_key), t),
          ret |-> "Both", raised |-> FALSE]
    ELSE IF normalized_key \notin DOMAIN md.fields
    THEN [md |-> md, ret |-> "MongoDB", raised |-> FALSE]
    ELSE IF md.fields[normalized_key].appearances < MIN_OBSERVATIONS
    THEN [md |-> md, ret |-> "MongoDB", raised |-> FALSE]
    ELSE [md |-> md, ret |-> "AttributeError", raised |-> TRUE]

\* ------------------------------------------------------------------------
\* SQLManager: db is [columns, unique, rows]; columns maps a column name to
\* its SQL type, unique is the set of columns under a unique constraint or
\* index, rows is the table, each row a map from the columns given to values
\* ------------------------------------------------------------------------

\* SQLManager._initialize_schema on a new database
\* the table without UNIQUE(sys_ingested_at)
initialize_schema_not_unique ==
    [columns |-> [c \in {"id", "username", "sys_ingested_at", "t_stamp"} |->
                     CASE c = "id" -> "INTEGER"
                       [] c = "username" -> "TEXT"
                       [] c = "sys_ingested_at" -> "TIMESTAMP"
                       [] c = "t_stamp" -> "TEXT"],
     unique |-> {},
     rows |-> <<>>]

initialize_schema ==
    [columns |-> [c \in {"id", "username", "sys_ingested_at", "t_stamp"} |->
                     CASE c = "id" -> "INTEGER"
                       [] c = "username" -> "TEXT"
                       [] c = "sys_ingested_at" -> "TIMESTAMP"
                       [] c = "t_stamp" -> "TEXT"],
     unique |-> {"sys_ingested_at"},
     rows |-> <<>>]

\* the columns declared NOT NULL by _initialize_schema
NotNullColumns == {"username", "sys_ingested_at"}

\* SQLManager.add_column_if_not_exists. A column is added empty, so the
\* unique index on it is always created.
\* add_column_if_not_exists giving an existing column the type of the tag
add_column_retyping(db, column_name, data_type, unique) ==
    [db EXCEPT
        !.columns = (column_name :> get_sql_type(data_type)) @@ db.columns,
        !.unique = IF unique /\ column_name \notin {"username", "t_stamp"}
                   THEN db.unique \cup {column_name} ELSE db.unique]

add_column_if_not_exists(db, column_name, data_type, unique) ==
    IF column_name \in DOMAIN db.columns THEN db
    ELSE [db EXCEPT
            !.columns = (column_name :> get_sql_type(data_type)) @@ db.columns,
            !.unique = IF unique /\ column_name \notin {"username", "t_stamp"}
                       THEN db.unique \cup {column_name} ELSE db.unique]

\* the record as insert_record sends it: sys_ingested_at filled in if absent
WithSysIngestedAt(record, t) ==
    IF DictHas(record, "sys_ingested_at") THEN record
    ELSE DictSet(record, "sys_ingested_at", StrV(isoformat(t), "iso"))

\* whether the INSERT of record is accepted by the table
SqlAccepts(db, record) ==
    /\ \A k \in DictKeys(record) : k \in DOMAIN db.columns
    /\ \A c \in NotNullColumns :
           DictHas(record, c) /\ DictGet(record, c).py # "NoneType"
    /\ \A c \in db.unique :
           (DictHas(record, c) /\ DictGet(record, c).py # "NoneType") =>
               \A i \in 1..Len(db.rows) :
                   ~(DictHas(db.rows[i], c) /\ DictGet(db.rows[i], c) = DictGet(record, c))

\* SQLManager.insert_record at clock reading t: the database afterwards and
\* the value returned
sql_insert_record(db, record, t) ==
    LET rec == WithSysIngestedAt(record, t)
    IN  IF SqlAccepts(db, rec)
        THEN [db |-> [db EXCEPT !.rows = Append(db.rows, rec)], ret |-> TRUE]
        ELSE [db |-> db, ret |-> FALSE]

\* ------------------------------------------------------------------------
\* MongoDBManager: mg is [up, docs]; up is FALSE when the connection failed
\* in __init__ (collection is None), docs is the collection
\* ------------------------------------------------------------------------

\* MongoDBManager.insert_record at clock reading t; fault says that
\* insert_one raises for a reason outside the program (network, server)
mongo_insert_record(mg, record, t, fault) ==
    IF ~mg.up THEN [mg |-> mg, ret |-> FALSE]
    ELSE LET rec == WithSysIngestedAt(record, t)
             duplicate == \E i \in 1..Len(mg.docs) :
                 DictGet(mg.docs[i], "sys_ingested_at") = DictGet(rec, "sys_ingested_at")
         IN  IF fault \/ duplicate
             THEN [mg |-> mg, ret |-> FALSE]
             ELSE [mg |-> [mg EXCEPT !.docs = Append(mg.docs, rec)], ret |-> TRUE]

\* ------------------------------------------------------------------------
\* IngestionPipeline
\* ------------------------------------------------------------------------

\* dict.update(other)
RECURSIVE DictUpdate(_, _)
DictUpdate(d, other) ==
    IF other = <<>> THEN d
    ELSE DictUpdate(DictSet(d, Head(other)[1], Head(other)[2]), Tail(other))

\* IngestionPipeline._flatten_record: <<flat_record, nested_fields>>. A dict
\* value carries its items in the field items.
RECURSIVE flatten_record(_, _)
RECURSIVE FlattenFrom(_, _, _, _, _)
FlattenFrom(record, parent_key, i, flat_record, nested_fields) ==
    IF i > Len(record)
    THEN <<flat_record, IF parent_key = "" THEN nested_fields ELSE <<>> >>
    ELSE LET key == record[i][1]
             value == record[i][2]
             new_key == IF parent_key # "" THEN parent_key \o "_" \o key ELSE key
         IN  IF value.py = "dict"
             THEN FlattenFrom(record, parent_key, i + 1,
                      DictUpdate(flat_record, flatten_record(value.items, new_key)[1]),
                      DictSet(nested_fields, new_key, value))
             ELSE IF value.py = "list"
             THEN FlattenFrom(record, parent_key, i + 1,
                      DictSet(flat_record, new_key, value),
                      DictSet(nested_fields, new_key, value))
             ELSE FlattenFrom(record, parent_key, i + 1,
                      DictSet(flat_record, new_key, value), nested_fields)

flatten_record(record, parent_key) ==
    FlattenFrom(record, parent_key, 1, <<>>, <<>>)

\* one turn of the loop of _normalize_and_track, on the pair <<key, value>>
TrackOne(md, original_key, value) ==
    LET normalized_key == normalize(original_key)
        md1 == IF original_key # normalized_key
                  /\ get_normalized_key(md, original_key) = original_key
               THEN add_normalization_rule(md, original_key, normalized_key)
               ELSE md
    IN  update_field_stats(md1, normalized_key, detect_type(value), value)

\* IngestionPipeline._normalize_and_track from item i on:
\* [md, normalized_record]
RECURSIVE NormalizeFrom(_, _, _, _)
NormalizeFrom(md, record, i, normalized_record) ==
    IF i > Len(record) THEN [md |-> md, normalized_record |-> normalized_record]
    ELSE Only({NormalizeFrom(m, record, i + 1,
                      DictSet(normalized_record, normalize(record[i][1]), record[i][2])) :
                  m \in {TrackOne(md, record[i][1], record[i][2])}})

normalize_and_track(md, record) == NormalizeFrom(md, record, 1, <<>>)

\* the loop of ingest_record that writes the nested values back
RECURSIVE PreserveNested(_, _)
PreserveNested(normalized_record, nested_fields) ==
    IF nested_fields = <<>> THEN normalized_record
    ELSE PreserveNested(
             DictSet(normalized_record, normalize(Head(nested_fields)[1]),
                     Head(nested_fields)[2]),
             Tail(nested_fields))

\* the server timestamp of _add_temporal_timestamps
sys_timestamp(t, total_processed) == isoformat(t) \o "." \o Format06d(total_processed)

\* IngestionPipeline._add_temporal_timestamps at clock reading t
add_temporal_timestamps(record, t, total_processed) ==
    LET r1 == DictSet(record, "sys_ingested_at",
                      StrV(sys_timestamp(t, total_processed), "iso"))
    IN  IF ~DictHas(r1, "t_stamp") /\ ~DictHas(r1, "timestamp")
        THEN DictSet(r1, "t_stamp", StrV(isoformat(t), "iso"))
        ELSE IF DictHas(r1, "timestamp") /\ ~DictHas(r1, "t_stamp")
        THEN DictSet(r1, "t_stamp", DictGet(r1, "timestamp"))
        ELSE r1

\* json.dumps(value) of a list or dict
json_dumps(value) == StrV(value.js, "plain")

\* the last loop of _split_by_placement: the mandatory fields of the record
\* are put in both records
RECURSIVE EnsureFrom(_, _, _, _)
EnsureFrom(record, out, i, names) ==
    IF i > Len(names) THEN out
    ELSE LET field == names[i]
             sql1 == IF DictHas(record, field) /\ ~DictHas(out.sql_record, field)
                     THEN DictSet(out.sql_record, field, DictGet(record, field))
                     ELSE out.sql_record
             mongo1 == IF DictHas(record, field) /\ ~DictHas(out.mongo_record, field)
                       THEN DictSet(out.mongo_record, field, DictGet(record, field))
                       ELSE out.mongo_record
         IN  EnsureFrom(record, [out EXCEPT !.sql_record = sql1,
                                            !.mongo_record = mongo1], i + 1, names)

\* _split_by_placement without its second loop
ensure_mandatory_skipped(record, out) == out

ensure_mandatory(record, out) ==
    EnsureFrom(record, out, 1, <<"username", "sys_ingested_at", "t_stamp">>)

\* one turn of the first loop of _split_by_placement, on item i of the
\* record; acc is [md, db, sql_record, mongo_record, raised, placements],
\* placements being what decide_placement returned for each field so far
\* the loop putting a field placed in SQL into the document as well
SplitOne_sql_in_document(acc, field_name, value, t) ==
    LET d == decide_placement(acc.md, field_name, t)
        to_sql == d.ret \in {"SQL", "Both"}
    IN  IF d.raised
        THEN [acc EXCEPT !.md = d.md, !.raised = TRUE,
                         !.placements = Append(acc.placements, <<field_name, d.ret>>)]
        ELSE [md |-> d.md,
              placements |-> Append(acc.placements, <<field_name, d.ret>>),
              db |-> IF to_sql
                     THEN add_column_if_not_exists(acc.db, field_name,
                              detect_type(value), should_be_unique(d.md, field_name))
                     ELSE acc.db,
              sql_record |->
                  IF to_sql
                  THEN DictSet(acc.sql_record, field_name,
                               IF value.py \in {"dict", "list"}
                               THEN json_dumps(value) ELSE value)
                  ELSE acc.sql_record,
              mongo_record |-> DictSet(acc.mongo_record, field_name, value),
              raised |-> FALSE]

SplitOne(acc, field_name, value, t) ==
    LET d == decide_placement(acc.md, field_name, t)
        to_sql == d.ret \in {"SQL", "Both"}
        to_mongo == d.ret \in {"MongoDB", "Both"}
    IN  IF d.raised
        THEN [acc EXCEPT !.md = d.md, !.raised = TRUE,
                         !.placements = Append(acc.placements, <<field_name, d.ret>>)]
        ELSE [md |-> d.md,
              placements |-> Append(acc.placements, <<field_name, d.ret>>),
              db |-> IF to_sql
                     THEN add_column_if_not_exists(acc.db, field_name,
                              detect_type(value), should_be_unique(d.md, field_name))
                     ELSE acc.db,
              sql_record |->
                  IF to_sql
                  THEN DictSet(acc.sql_record, field_name,
                               IF value.py \in {"dict", "list"}
                               THEN json_dumps(value) ELSE value)
                  ELSE acc.sql_record,
              mongo_record |-> IF to_mongo
                               THEN DictSet(acc.mongo_record, field_name, value)
                               ELSE acc.mongo_record,
              raised |-> FALSE]

RECURSIVE SplitFrom(_, _, _, _)
SplitFrom(acc, record, i, t) ==
    IF acc.raised \/ i > Len(record) THEN acc
    ELSE Only({SplitFrom(a, record, i + 1, t) :
                  a \in {SplitOne(acc, record[i][1], record[i][2], t)}})

\* IngestionPipeline._split_by_placement at clock reading t:
\* [md, db, sql_record, mongo_record, raised, placements]
split_by_placement(md, db, record, t) ==
    LET acc == SplitFrom([md |-> md, db |-> db, sql_record |-> <<>>,
                          mongo_record |-> <<>>, raised |-> FALSE,
                          placements |-> <<>>], record, 1, t)
    IN  IF acc.raised THEN acc ELSE ensure_mandatory(record, acc)

\* ingest_record asking for both inserts to succeed
ingest_result_both(sql_success, mongo_success) == sql_success /\ mongo_success

\* the value ingest_record returns after the two inserts
ingest_result(sql_success, mongo_success) == sql_success \/ mongo_success

\* json.dump of an int: its decimal digits
JsonNumber(n) == [json |-> "number", text |-> ToString(n)]

\* the value of a decimal digit
DigitValue(c) == CHOOSE d \in 0..9 : ToString(d) = c

\* json.load of a number written by json.dump: the digits read from the left
RECURSIVE ParseDigits(_, _, _)
ParseDigits(text, i, acc) ==
    IF i > Len(text) THEN acc
    ELSE ParseDigits(text, i + 1, 10 * acc + DigitValue(Ch(text, i)))

ParseInt(number) == ParseDigits(number.text, 1, 0)

\* json.dump(self.metadata, f): the text of the file, object by object;
\* the strings are written as they are, the ints as digits
json_dump(md) ==
    [fields |-> [k \in DOMAIN md.fields |->
         [appearances |-> JsonNumber(md.fields[k].appearances),
          type_counts |-> [i \in 1..Len(md.fields[k].type_counts) |->
              <<md.fields[k].type_counts[i][1],
                JsonNumber(md.fields[k].type_counts[i][2])>>],
          sample_values |-> md.fields[k].sample_values]],
     normalization_rules |-> md.normalization_rules,
     placement_decisions |-> md.placement_decisions,
     total_records |-> JsonNumber(md.total_records)]

\* json.load(f) of a complete file
json_load(text) ==
    [fields |-> [k \in DOMAIN text.fields |->
         [appearances |-> ParseInt(text.fields[k].appearances),
          type_counts |-> [i \in 1..Len(text.fields[k].type_counts) |->
              <<text.fields[k].type_counts[i][1],
                ParseInt(text.fields[k].type_counts[i][2])>>],
          sample_values |-> text.fields[k].sample_values]],
     normalization_rules |-> text.normalization_rules,
     placement_decisions |-> text.placement_decisions,
     total_records |-> ParseInt(text.total_records)]

\* MetadataStore.save: the file afterwards
save(md) == [exists |-> TRUE, content |-> json_dump(md)]

\* the file after open(storage_file, 'w') and before json.dump has written
\* all of it: no JSON document
TruncatedFile == [exists |-> TRUE]

\* a load that ignores the file
load_metadata_fresh(file) == initialize_metadata

\* MetadataStore._load_metadata: a file that json.load cannot read gives a
\* fresh dictionary
load_metadata(file) ==
    IF file.exists /\ "content" \in DOMAIN file
    THEN json_load(file.content)
    ELSE initialize_metadata

\* ------------------------------------------------------------------------
\* Inputs
\* ------------------------------------------------------------------------

RecordA == << <<"username", StrV("u1", "plain")>>, <<"age", IntV("25")>> >>

RecordB == << <<"userName", StrV("u1", "plain")>>, <<"Age", StrV("old", "plain")>> >>

\* two spellings of one canonical key, and no username
RecordC == << <<"IP", StrV("10.0.0.1", "ipv4")>>,
              <<"ip_address", StrV("10.0.0.2", "ipv4")>> >>

Records == {RecordA, RecordB, RecordC}

\* a record with a list
RecordT == << <<"username", StrV("u1", "plain")>>, <<"age", IntV("25")>>,
              <<"tags", ListV("['a', 'b']", "[\"a\", \"b\"]")>> >>

\* records that each carry a UUID of their own under device_id
RecordU1 == << <<"username", StrV("u1", "plain")>>,
               <<"deviceId", StrV("0b0e7f2a-58a1-4c1e-9d57-3a1f0c6b7e11", "uuid")>> >>

RecordU2 == << <<"username", StrV("u1", "plain")>>,
               <<"device_id", StrV("7c9e6679-7425-40de-944b-e07fc1f90ae7", "uuid")>> >>

\* the record test_unique_constraints hands to SQLManager.insert_record
\* (without its email column, which exists only after test_add_columns)
DuplicateRecord(t) ==
    << <<"username", StrV("duplicate_test", "plain")>>,
       <<"sys_ingested_at", StrV(isoformat(t) \o ".000001", "iso")>>,
       <<"t_stamp", StrV(isoformat(t), "iso")>> >>

\* ------------------------------------------------------------------------
\* State
\* ------------------------------------------------------------------------

VARIABLES
    metadata,   \* MetadataStore.metadata
    disk,       \* the metadata file storage_file
    stats,      \* IngestionPipeline.stats
    sql,        \* the relational database of SQLManager
    mongo,      \* the collection of MongoDBManager
    now,        \* the last reading of the wall clock
    calls,      \* [ingest, direct, faults, store, starts, crashes]: the calls,
                \* faults, restarts and crashes so far; unsaved: the
                \* ingest_record calls since the metadata file was last saved;
                \* increments, updates: the calls of increment_total_records
                \* and, per key, of update_field_stats that have returned
    last,       \* what the last operation did and returned
    lock,       \* MetadataStore.lock: 0 when free, else the thread holding it
    feeders,    \* each thread that calls the store: its position and locals
    generated,  \* every sys_ingested_at generated so far, as
                \* <<pipeline instance, value>>, in the order of the calls
    consumer    \* the DataConsumer in consume_continuous: its position,
                \* is_running, batch_num, and what it has done so far

vars == <<metadata, disk, stats, sql, mongo, now, calls, last, lock, feeders,
         generated, consumer>>

\* the threads that call the store directly
Feeders == 1..MaxFeeders

\* the keys the threads call the store for
StoreKeys == {"age", "username"}

\* a thread outside any call of the store. field_data holds the field record
\* its last unlocked read returned, ret what its last decide_placement
\* returned
Idle == [pc |-> "idle", method |-> "", normalized_key |-> "",
         original_key |-> "", data_type |-> "", value |-> NoneV, read |-> 0,
         decision |-> <<>>, field_data |-> <<>>, ret |-> "", returned |-> 0]

\* a DataConsumer before consume_continuous is called. events are the lines
\* of the current batch so far, attempted the batches begun
NotConsuming ==
    [pc |-> "new", is_running |-> FALSE, batch_num |-> 1, attempted |-> 0,
     events |-> <<>>, failed |-> 0, stopped |-> FALSE, after_stop |-> 0]

NoCall ==
    [op |-> "none", raw |-> <<>>, record |-> <<>>, placements |-> <<>>,
     sql_record |-> <<>>, mongo_record |-> <<>>, raised |-> FALSE,
     sql_attempted |-> FALSE, mongo_attempted |-> FALSE,
     sql_success |-> FALSE, mongo_success |-> FALSE, ret |-> FALSE,
     saved |-> FALSE]

\* IngestionPipeline.__init__ with the metadata file as found on disk
InitWith(file) ==
    /\ disk = file
    /\ metadata = load_metadata(file)
    /\ stats = [total_processed |-> 0, sql_inserts |-> 0,
                mongodb_inserts |-> 0, errors |-> 0]
    /\ sql = initialize_schema
    /\ mongo \in {[up |-> u, docs |-> <<>>] : u \in BOOLEAN}
    /\ now = 0
    /\ calls = [ingest |-> 0, direct |-> 0, faults |-> 0, store |-> 0,
                starts |-> 0, crashes |-> 0, unsaved |-> 0,
                increments |-> 0, updates |-> [k \in StoreKeys |-> 0]]
    /\ last = NoCall
    /\ lock = 0
    /\ feeders = [f \in Feeders |-> Idle]
    /\ generated = <<>>
    /\ consumer = NotConsuming

\* a pipeline started without a metadata file
Init == InitWith([exists |-> FALSE])

\* the readings the wall clock can give next
ClockReadings == {t \in {now, now + 1} : t <= MaxClock}

\* IngestionPipeline.ingest_record(raw) at clock reading t, from the
\* dictionary md, the metadata file, the counters st, the database db and the
\* collection mg; fault says whether the document insert fails for an
\* outside reason. The result holds each of them afterwards, and in last
\* what the call did and returned.
ingest_record(md, file, st, db, mg, raw, t, fault) ==
    LET flat == flatten_record(raw, "")
        tracked == normalize_and_track(md, flat[1])
        record == add_temporal_timestamps(
                      PreserveNested(tracked.normalized_record, flat[2]),
                      t, st.total_processed)
        counted == increment_total_records(tracked.md)
        split == split_by_placement(counted, db, record, t)
        sql_attempted == Len(split.sql_record) > 0
        sql_res == IF sql_attempted
                   THEN sql_insert_record(split.db, split.sql_record, t)
                   ELSE [db |-> split.db, ret |-> FALSE]
        mongo_attempted == Len(split.mongo_record) > 0
        mongo_res == IF mongo_attempted
                     THEN mongo_insert_record(mg, split.mongo_record, t, fault)
                     ELSE [mg |-> mg, ret |-> FALSE]
        processed == st.total_processed + 1
    IN  IF split.raised
        THEN [metadata |-> split.md, disk |-> file,
              stats |-> [st EXCEPT !.errors = st.errors + 1],
              sql |-> split.db, mongo |-> mg,
              last |-> [NoCall EXCEPT !.op = "ingest", !.raw = raw,
                           !.record = record, !.placements = split.placements,
                           !.raised = TRUE, !.ret = FALSE]]
        ELSE [metadata |-> split.md,
              disk |-> IF processed % SaveEvery = 0 THEN save(split.md) ELSE file,
              stats |-> [st EXCEPT
                  !.total_processed = processed,
                  !.sql_inserts = IF sql_res.ret THEN @ + 1 ELSE @,
                  !.mongodb_inserts = IF mongo_res.ret THEN @ + 1 ELSE @],
              sql |-> sql_res.db, mongo |-> mongo_res.mg,
              last |-> [op |-> "ingest", raw |-> raw, record |-> record,
                        placements |-> split.placements,
                        sql_record |-> split.sql_record,
                        mongo_record |-> split.mongo_record,
                        raised |-> FALSE,
                        sql_attempted |-> sql_attempted,
                        mongo_attempted |-> mongo_attempted,
                        sql_success |-> sql_res.ret,
                        mongo_success |-> mongo_res.ret,
                        ret |-> ingest_result(sql_res.ret, mongo_res.ret),
                        saved |-> processed % SaveEvery = 0]]

\* a call of ingest_record
IngestCall(raw, t, fault) ==
    /\ \E o \in {ingest_record(metadata, disk, stats, sql, mongo, raw, t, fault)} :
           /\ metadata' = o.metadata
           /\ disk' = o.disk
           /\ stats' = o.stats
           /\ sql' = o.sql
           /\ mongo' = o.mongo
           /\ last' = o.last
           /\ generated' = Append(generated,
                  <<calls.starts, DictGet(o.last.record, "sys_ingested_at").s>>)
           /\ calls' = [calls EXCEPT !.ingest = @ + 1,
                                     !.faults = IF fault THEN @ + 1 ELSE @,
                                     !.unsaved = IF o.last.saved THEN 0 ELSE @ + 1]
    /\ now' = t
    /\ UNCHANGED <<lock, feeders>>

\* a call of ingest_record by the feeder
IngestRecord(raw, t, fault) ==
    IngestCall(raw, t, fault) /\ UNCHANGED consumer

\* SQLManager.insert_record called on its own, as test_unique_constraints does
InsertDirect(t) ==
    /\ \E res \in {sql_insert_record(sql, DuplicateRecord(t), t)} :
           /\ sql' = res.db
           /\ last' = [NoCall EXCEPT !.op = "insert",
                          !.sql_record = DuplicateRecord(t),
                          !.sql_attempted = TRUE,
                          !.sql_success = res.ret, !.ret = res.ret]
    /\ now' = t
    /\ calls' = [calls EXCEPT !.direct = @ + 1]
    /\ UNCHANGED <<metadata, disk, stats, generated, mongo, lock, feeders, consumer>>

\* the feeder of a pipeline: records arrive one after the other
Next ==
    \E raw \in Records, t \in ClockReadings :
        calls.ingest < MaxRecords /\ IngestRecord(raw, t, FALSE)

Spec == Init /\ [][Next]_vars

\* ------------------------------------------------------------------------
\* A pipeline started from a metadata file left on disk
\* ------------------------------------------------------------------------

\* the dictionary of a store that tracked n records
\* {"username": "u1", "age": 25}: what _normalize_and_track and
\* increment_total_records leave after each of them
RECURSIVE TrackedFrom(_, _)
TrackedFrom(md, n) ==
    IF n = 0 THEN md
    ELSE Only({TrackedFrom(m, n - 1) :
                  m \in {increment_total_records(
                             update_field_stats(
                                 update_field_stats(md, "username", "string",
                                                    StrV("u1", "plain")),
                                 "age", "integer", IntV("25")))}})

\* the decisions decide_placement stores for the mandatory keys of the first
\* record, taken at clock reading 0
MandatoryDecided(md) ==
    Only({set_placement_decision(m2, "t_stamp", "Both", MandatoryReason("t_stamp"), 0) :
          m2 \in {set_placement_decision(m1, "sys_ingested_at", "Both",
                                         MandatoryReason("sys_ingested_at"), 0) :
                  m1 \in {set_placement_decision(md, "username", "Both",
                                                 MandatoryReason("username"), 0)}}})

\* the dictionary after a pipeline ingested n records {"username": "u1", "age": 25}
MetadataAfter(n) == MandatoryDecided(TrackedFrom(initialize_metadata, n))

\* the file a pipeline saves on close after nine such records
FileNine == save(MetadataAfter(9))

\* a file in which age, seen ten times as an integer, is placed in SQL: the
\* decision the placement engine is documented to take for such a field
FileSql ==
    save(Only({set_placement_decision(m, "age", "SQL",
                                      "High frequency + stable stability", 0) :
               m \in {MetadataAfter(10)}}))

\* a file edited by hand: mandatory fields with decisions other than Both
FileEdited ==
    save(Only({set_placement_decision(m2, "t_stamp", "SQL", "edited", 0) :
               m2 \in {set_placement_decision(m1, "username", "MongoDB", "edited", 0) :
                       m1 \in {MetadataAfter(1)}}}))

MetadataFiles == {FileNine, FileSql, FileEdited}

InitLoaded == \E file \in MetadataFiles : InitWith(file)

NextLoaded ==
    \E raw \in Records, t \in ClockReadings :
        calls.ingest < MaxLoadedRecords /\ IngestRecord(raw, t, FALSE)

SpecLoaded == InitLoaded /\ [][NextLoaded]_vars

\* a file in which age and device_id are placed in SQL and tags in both
\* backends
FilePlaced ==
    save(Only({set_placement_decision(m3, "device_id", "SQL", "edited", 0) :
               m3 \in {set_placement_decision(m2, "tags", "Both", "edited", 0) :
                       m2 \in {set_placement_decision(m1, "age", "SQL",
                                   "High frequency + stable stability", 0) :
                               m1 \in {MetadataAfter(10)}}}}))

InitSplit == InitWith(FilePlaced)

\* records whose fields are placed in SQL, in MongoDB and in both
NextSplit ==
    \E raw \in {RecordA, RecordC, RecordT, RecordU1, RecordU2},
       t \in ClockReadings :
        calls.ingest < MaxSplitRecords /\ IngestRecord(raw, t, FALSE)

SpecSplit == InitSplit /\ [][NextSplit]_vars

\* the raw keys the feeder sends: spellings of the semantic patterns, camel
\* case, runs of underscores, and the canonical names themselves
CanonicalKeys ==
    {"app_version", "battery", "created_at", "device_id", "device_model",
     "email", "gps_lat", "gps_lon", "ip_address", "network", "os", "phone",
     "session_id", "timestamp", "updated_at", "user_id", "username", "version"}

RawKeys ==
    {"IP", "ipAddr", "IPv4Address", "userName", "UserName", "user_name",
     "User", "userID", "EMail", "e_mail", "mailAddr", "phoneNumber", "Tel",
     "TimeStamp", "tStamp", "t_stamp", "_stamp", "createdAt", "Updated",
     "GPSLatitude", "gpsLat", "Long", "DeviceID", "devId", "deviceModel",
     "SessionId", "Net", "batteryLevel", "BAT", "OSName", "operatingSystem",
     "AppVersion", "Ver", "__x__", "someField", "HTTPResponse", "a__b",
     "age", "Age2Go", "x_", "_"} \cup CanonicalKeys

\* a record of one field under the raw key k
KeyRecord(k) == << <<k, IntV("1")>> >>

NextKeys ==
    \E k \in RawKeys, t \in ClockReadings :
        calls.ingest < MaxKeyRecords /\ IngestRecord(KeyRecord(k), t, FALSE)

SpecKeys == Init /\ [][NextKeys]_vars

\* a pipeline whose placement engine fails on every record it is given: a
\* run of calls none of which reaches the periodic save
NextCadence ==
    \E raw \in {RecordA, RecordB}, t \in ClockReadings :
        calls.ingest < MaxCadenceRecords /\ IngestRecord(raw, t, FALSE)

InitCadence == InitWith(FileNine)

SpecCadence == InitCadence /\ [][NextCadence]_vars

\* ------------------------------------------------------------------------
\* A pipeline closed or killed, and a new one started on the same files
\* ------------------------------------------------------------------------

\* IngestionPipeline.__init__ of the next pipeline instance: the dictionary
\* is loaded from file, the counters start at 0, the table and the
\* collection are the ones the last instance left
StartOn(file) ==
    /\ disk' = file
    /\ metadata' = load_metadata(file)
    /\ stats' = [total_processed |-> 0, sql_inserts |-> 0,
                 mongodb_inserts |-> 0, errors |-> 0]
    /\ UNCHANGED <<sql, mongo, now, lock, feeders, generated, consumer>>

\* IngestionPipeline.close, then a new pipeline on the same files
Restart ==
    /\ StartOn(save(metadata))
    /\ calls' = [calls EXCEPT !.starts = @ + 1, !.unsaved = 0]
    /\ last' = [NoCall EXCEPT !.op = "close", !.saved = TRUE]

\* the process killed inside MetadataStore.save called by close, after
\* open(storage_file, 'w') has emptied the file; then a new pipeline
CrashInSave ==
    /\ StartOn(TruncatedFile)
    /\ calls' = [calls EXCEPT !.starts = @ + 1, !.crashes = @ + 1]
    /\ last' = [NoCall EXCEPT !.op = "crash"]

NextRestart ==
    \/ \E raw \in {RecordA, RecordC}, t \in ClockReadings :
           calls.ingest < MaxRestartRecords /\ IngestRecord(raw, t, FALSE)
    \/ calls.starts < MaxStarts /\ Restart
    \/ calls.starts < MaxStarts /\ calls.crashes < MaxCrashes /\ CrashInSave

SpecRestart == Init /\ [][NextRestart]_vars

\* IngestionPipeline.close, then IngestionPipeline.__init__ of the next
\* instance with the database file openable or not (sql_up) and the MongoDB
\* server answering the ping or not (mongo_up). sqlite3.connect is called
\* outside any try: when it fails __init__ raises and there is no pipeline.
\* MongoDBManager.__init__ catches ConnectionFailure and sets its collection
\* to None; mongo.up says after the step whether the server answered.
StartWith(sql_up, mongo_up) ==
    /\ disk' = save(metadata)
    /\ metadata' = load_metadata(save(metadata))
    /\ stats' = [total_processed |-> 0, sql_inserts |-> 0,
                 mongodb_inserts |-> 0, errors |-> 0]
    /\ mongo' = [mongo EXCEPT !.up = mongo_up]
    /\ calls' = [calls EXCEPT !.starts = @ + 1, !.unsaved = 0]
    /\ last' = [NoCall EXCEPT !.op = "init", !.raised = ~sql_up, !.saved = TRUE]
    /\ UNCHANGED <<sql, now, lock, feeders, generated, consumer>>

\* __init__ has returned a pipeline
Started == ~(last.op = "init" /\ last.raised)

NextStartup ==
    \/ \E raw \in {RecordA, RecordC}, t \in ClockReadings :
           /\ calls.ingest < MaxRestartRecords
           /\ Started
           /\ IngestRecord(raw, t, FALSE)
    \/ \E sql_up, mongo_up \in BOOLEAN :
           calls.starts < MaxStarts /\ StartWith(sql_up, mongo_up)

SpecStartup == Init /\ [][NextStartup]_vars

\* ------------------------------------------------------------------------
\* SQLManager.add_column_if_not_exists called on its own, as test_add_columns
\* does, with any tag and any unique flag
\* ------------------------------------------------------------------------

ColumnNames == {"email", "device_id", "note"}

\* tags of detect_type, and one get_sql_type does not know
ColumnTags == {"email", "uuid", "integer", "null", "mystery"}

AddColumnDirect(column_name, data_type, unique) ==
    /\ sql' = add_column_if_not_exists(sql, column_name, data_type, unique)
    /\ last' = [NoCall EXCEPT !.op = "add_column",
                   !.record = << <<"column_name", column_name>>,
                                 <<"data_type", data_type>>,
                                 <<"unique", unique>> >>]
    /\ calls' = [calls EXCEPT !.direct = @ + 1]
    /\ UNCHANGED <<metadata, disk, stats, generated, mongo, now, lock,
                   feeders, consumer>>

NextColumns ==
    \E column_name \in ColumnNames, data_type \in ColumnTags, unique \in BOOLEAN :
        calls.direct < MaxColumnCalls
            /\ AddColumnDirect(column_name, data_type, unique)

SpecColumns == Init /\ [][NextColumns]_vars

\* ------------------------------------------------------------------------
\* DataConsumer.consume_continuous(batch_size, total_batches) with
\* total_batches = MaxBatches; the stream of a batch gives at most MaxLines
\* lines, each a record or a line that is not JSON, and may break off with
\* an exception. Another thread may call stop(), the user may interrupt.
\* ------------------------------------------------------------------------

\* consume_continuous starting every batch, whatever is_running says
IgnoresStop(c) == TRUE

\* "if not self.is_running: break" lets the next batch start
MayStartBatch(c) == c.is_running

\* fetch_batch letting the exception end the consumption
fetch_error_ends(c) ==
    [c EXCEPT !.pc = "loop", !.batch_num = MaxBatches + 1,
              !.events = Append(@, "error"), !.failed = @ + 1]

\* fetch_batch after "except Exception": it returns, and the loop goes on
\* to its next turn
fetch_error(c) ==
    [c EXCEPT !.pc = "loop", !.batch_num = @ + 1,
              !.events = Append(@, "error"), !.failed = @ + 1]

\* the pipeline is left alone
PipelineUnchanged ==
    UNCHANGED <<metadata, disk, stats, sql, mongo, now, calls, last, lock,
                feeders, generated>>

\* consume_continuous is called
StartConsuming ==
    /\ consumer.pc = "new"
    /\ consumer' = [consumer EXCEPT !.pc = "loop", !.is_running = TRUE]
    /\ PipelineUnchanged

\* a turn of the loop begins: fetch_batch is called
BeginBatch ==
    /\ consumer.pc = "loop"
    /\ consumer.batch_num <= MaxBatches
    /\ MayStartBatch(consumer)
    /\ consumer' = [consumer EXCEPT !.pc = "batch", !.attempted = @ + 1,
                                    !.events = <<>>]
    /\ PipelineUnchanged

\* a line "data: {json}": the record is ingested
IngestLine(raw, t) ==
    /\ consumer.pc = "batch"
    /\ Len(consumer.events) < MaxLines
    /\ IngestCall(raw, t, FALSE)
    /\ consumer' = [consumer EXCEPT
           !.events = Append(@, "record"),
           !.after_stop = IF consumer.stopped THEN @ + 1 ELSE @]

\* a line "data: ..." that json.loads refuses: JSONDecodeError is caught
\* inside the loop over the lines
MalformedLine ==
    /\ consumer.pc = "batch"
    /\ Len(consumer.events) < MaxLines
    /\ consumer' = [consumer EXCEPT !.events = Append(@, "malformed")]
    /\ PipelineUnchanged

\* requests raises, at the GET or while the lines are read
NetworkError ==
    /\ consumer.pc = "batch"
    /\ consumer' = fetch_error(consumer)
    /\ PipelineUnchanged

\* the stream ends (or the status was not 200): fetch_batch returns, the
\* loop sleeps and goes on to its next turn
EndBatch ==
    /\ consumer.pc = "batch"
    /\ consumer' = [consumer EXCEPT !.pc = "loop", !.batch_num = @ + 1]
    /\ PipelineUnchanged

\* DataConsumer.stop called by another thread
Stop ==
    /\ consumer.pc \in {"loop", "batch"}
    /\ ~consumer.stopped
    /\ consumer' = [consumer EXCEPT !.is_running = FALSE, !.stopped = TRUE]
    /\ PipelineUnchanged

\* IngestionPipeline.close called in "finally"
CloseAfter(md) ==
    /\ metadata' = md
    /\ disk' = save(md)
    /\ last' = [NoCall EXCEPT !.op = "close", !.saved = TRUE]
    /\ calls' = [calls EXCEPT !.unsaved = 0]
    /\ UNCHANGED <<stats, sql, mongo, now, lock, feeders, generated>>

\* the loop ends, by break or after its last turn; finally: close
ExitLoop ==
    /\ consumer.pc = "loop"
    /\ ~MayStartBatch(consumer) \/ consumer.batch_num > MaxBatches
    /\ consumer' = [consumer EXCEPT !.pc = "closed"]
    /\ CloseAfter(metadata)

\* KeyboardInterrupt while ingest_record is at work on raw, after
\* _normalize_and_track and before the record is counted: the exception
\* passes the "except Exception" of ingest_record and of fetch_batch, is
\* caught in consume_continuous, and finally closes the pipeline
InterruptInRecord(raw) ==
    /\ consumer.pc = "batch"
    /\ Len(consumer.events) < MaxLines
    /\ consumer' = [consumer EXCEPT !.pc = "closed", !.is_running = FALSE,
                                    !.events = Append(@, "interrupted")]
    /\ \E tracked \in {normalize_and_track(metadata, flatten_record(raw, "")[1])} :
           CloseAfter(tracked.md)

NextConsumer ==
    \/ StartConsuming
    \/ BeginBatch
    \/ \E t \in ClockReadings : IngestLine(RecordA, t)
    \/ MalformedLine
    \/ NetworkError
    \/ EndBatch
    \/ Stop
    \/ ExitLoop
    \/ InterruptInRecord(RecordB)

SpecConsumer == Init /\ [][NextConsumer]_vars

\* ------------------------------------------------------------------------
\* The two backends: inserts that fail, and inserts made past the pipeline
\* ------------------------------------------------------------------------

NextBackends ==
    \/ \E raw \in {RecordA, RecordC}, t \in ClockReadings, fault \in BOOLEAN :
           /\ calls.ingest < MaxBackendRecords
           /\ fault => (calls.faults < MaxFaults /\ mongo.up)
           /\ IngestRecord(raw, t, fault)
    \/ \E t \in ClockReadings :
           calls.direct < MaxDirect /\ InsertDirect(t)

SpecBackends == Init /\ [][NextBackends]_vars

\* ------------------------------------------------------------------------
\* Several threads calling the methods of one MetadataStore and
\* PlacementHeuristics.decide_placement on it: the statements of each method
\* one by one, each read-modify-write as a read and a write
\* ------------------------------------------------------------------------

\* the values the threads report, each with the tag detect_type gives it
StoreValues == {IntV("25"), StrV("old", "plain")}

\* "with self.lock" left out
LockIgnored(lk) == TRUE

\* threading.Lock: acquire succeeds only while no thread holds the lock
LockIsFree(lk) == lk = 0

\* md with the field record of normalized_key replaced
SetField(md, normalized_key, field_data) ==
    [md EXCEPT !.fields = (normalized_key :> field_data) @@ md.fields]

\* thread f enters a method that starts with "with self.lock"
Enter(f, method) ==
    /\ feeders[f].pc = "idle"
    /\ calls.store < MaxStoreCalls
    /\ calls' = [calls EXCEPT !.store = @ + 1]
    /\ UNCHANGED <<metadata, disk, stats, generated, sql, mongo, now, last, lock, consumer>>

\* thread f calls update_field_stats(normalized_key, detect_type(value), value)
CallUpdateFieldStats(f, normalized_key, value) ==
    /\ Enter(f, "update_field_stats")
    /\ feeders' = [feeders EXCEPT ![f] =
           [@ EXCEPT !.pc = "acquire", !.method = "update_field_stats",
                     !.normalized_key = normalized_key,
                     !.data_type = detect_type(value), !.value = value]]

\* thread f calls increment_total_records()
CallIncrementTotalRecords(f) ==
    /\ Enter(f, "increment_total_records")
    /\ feeders' = [feeders EXCEPT ![f] =
           [@ EXCEPT !.pc = "acquire", !.method = "increment_total_records"]]

\* thread f calls add_normalization_rule(original_key, normalized_key)
CallAddNormalizationRule(f, original_key, normalized_key) ==
    /\ Enter(f, "add_normalization_rule")
    /\ feeders' = [feeders EXCEPT ![f] =
           [@ EXCEPT !.pc = "acquire", !.method = "add_normalization_rule",
                     !.original_key = original_key,
                     !.normalized_key = normalized_key]]

\* thread f calls decide_placement(normalized_key)
CallDecidePlacement(f, normalized_key) ==
    /\ Enter(f, "decide_placement")
    /\ feeders' = [feeders EXCEPT ![f] =
           [@ EXCEPT !.pc = "decide", !.method = "decide_placement",
                     !.normalized_key = normalized_key]]

\* the first statement of each method under the lock
FirstStatement(method) ==
    CASE method = "update_field_stats" -> "create"
      [] method = "increment_total_records" -> "read_total"
      [] method = "add_normalization_rule" -> "set_rule"
      [] method = "set_placement_decision" -> "set_decision"
      [] method = "save" -> "open"

\* with self.lock: entry
AcquireLock(f) ==
    /\ feeders[f].pc = "acquire"
    /\ LockIsFree(lock)
    /\ lock' = f
    /\ feeders' = [feeders EXCEPT ![f].pc = FirstStatement(feeders[f].method)]
    /\ UNCHANGED <<metadata, disk, stats, generated, sql, mongo, now, calls, last, consumer>>

\* self.metadata['total_records'] += 1: the read
ReadTotal(f) ==
    /\ feeders[f].pc = "read_total"
    /\ feeders' = [feeders EXCEPT ![f] =
           [@ EXCEPT !.pc = "write_total", !.read = metadata.total_records]]
    /\ UNCHANGED <<metadata, disk, stats, generated, sql, mongo, now, calls, last, lock, consumer>>

\* self.metadata['total_records'] += 1: the write
WriteTotal(f) ==
    /\ feeders[f].pc = "write_total"
    /\ metadata' = [metadata EXCEPT !.total_records = feeders[f].read + 1]
    /\ feeders' = [feeders EXCEPT ![f].pc = "release"]
    /\ UNCHANGED <<disk, stats, generated, sql, mongo, now, calls, last, lock, consumer>>

\* self.metadata['normalization_rules'][original_key] = normalized_key
SetRule(f) ==
    /\ feeders[f].pc = "set_rule"
    /\ metadata' = add_normalization_rule(metadata, feeders[f].original_key,
                                          feeders[f].normalized_key)
    /\ feeders' = [feeders EXCEPT ![f].pc = "release"]
    /\ UNCHANGED <<disk, stats, generated, sql, mongo, now, calls, last, lock, consumer>>

\* decide_placement up to its return or its call of set_placement_decision:
\* get_placement_decision and the read of metadata['fields'], neither under
\* the lock. The decision to store, if any, goes with the thread into
\* set_placement_decision.
DecidePlacement(f) ==
    /\ feeders[f].pc = "decide"
    /\ \E o \in {decide_placement(metadata, feeders[f].normalized_key, now)} :
           LET key == feeders[f].normalized_key
               field_data ==
                   IF key \in DOMAIN metadata.placement_decisions
                      \/ key \in mandatory_fields
                      \/ key \notin DOMAIN metadata.fields
                   THEN <<>> ELSE <<metadata.fields[key]>>
           IN  feeders' = [feeders EXCEPT ![f] =
                   IF o.md = metadata
                   THEN [Idle EXCEPT !.normalized_key = key,
                                     !.field_data = field_data, !.ret = o.ret,
                                     !.returned = feeders[f].returned + 1]
                   ELSE [@ EXCEPT !.pc = "acquire",
                                  !.method = "set_placement_decision",
                                  !.field_data = field_data, !.ret = o.ret,
                                  !.decision = <<o.md.placement_decisions[key]>>]]
    /\ UNCHANGED <<metadata, disk, stats, generated, sql, mongo, now, calls, last, lock, consumer>>

\* self.metadata['placement_decisions'][normalized_key] = {...}
SetDecision(f) ==
    /\ feeders[f].pc = "set_decision"
    /\ metadata' = [metadata EXCEPT !.placement_decisions =
           (feeders[f].normalized_key :> feeders[f].decision[1]) @@ @]
    /\ feeders' = [feeders EXCEPT ![f].pc = "release"]
    /\ UNCHANGED <<disk, stats, generated, sql, mongo, now, calls, last, lock, consumer>>

\* thread f calls get_field_type_stability(normalized_key): the read of the
\* field record, which the method does without taking the lock
GetFieldTypeStability(f, normalized_key) ==
    /\ Enter(f, "get_field_type_stability")
    /\ feeders' = [feeders EXCEPT ![f] =
           [Idle EXCEPT !.field_data =
                            IF normalized_key \in DOMAIN metadata.fields
                            THEN <<metadata.fields[normalized_key]>> ELSE <<>>,
                        !.ret = get_field_type_stability(
                                    metadata, normalized_key).dominant_type,
                        !.returned = feeders[f].returned + 1]]

\* if normalized_key not in self.metadata['fields']: create the record
CreateField(f) ==
    /\ feeders[f].pc = "create"
    /\ metadata' = IF feeders[f].normalized_key \in DOMAIN metadata.fields
                   THEN metadata
                   ELSE SetField(metadata, feeders[f].normalized_key, NewField)
    /\ feeders' = [feeders EXCEPT ![f].pc = "read_appearances"]
    /\ UNCHANGED <<disk, stats, generated, sql, mongo, now, calls, last, lock, consumer>>

\* field_data['appearances'] += 1: the read
ReadAppearances(f) ==
    /\ feeders[f].pc = "read_appearances"
    /\ feeders' = [feeders EXCEPT ![f] =
           [@ EXCEPT !.pc = "write_appearances",
                     !.read = metadata.fields[feeders[f].normalized_key].appearances]]
    /\ UNCHANGED <<metadata, disk, stats, generated, sql, mongo, now, calls, last, lock, consumer>>

\* field_data['appearances'] += 1: the write
WriteAppearances(f) ==
    /\ feeders[f].pc = "write_appearances"
    /\ metadata' = SetField(metadata, feeders[f].normalized_key,
           [metadata.fields[feeders[f].normalized_key] EXCEPT
               !.appearances = feeders[f].read + 1])
    /\ feeders' = [feeders EXCEPT ![f].pc = "create_type"]
    /\ UNCHANGED <<disk, stats, generated, sql, mongo, now, calls, last, lock, consumer>>

\* if data_type not in field_data['type_counts']: start it at 0
CreateType(f) ==
    /\ feeders[f].pc = "create_type"
    /\ LET field_data == metadata.fields[feeders[f].normalized_key]
       IN  metadata' =
               IF DictHas(field_data.type_counts, feeders[f].data_type)
               THEN metadata
               ELSE SetField(metadata, feeders[f].normalized_key,
                        [field_data EXCEPT !.type_counts =
                            DictSet(@, feeders[f].data_type, 0)])
    /\ feeders' = [feeders EXCEPT ![f].pc = "read_type"]
    /\ UNCHANGED <<disk, stats, generated, sql, mongo, now, calls, last, lock, consumer>>

\* field_data['type_counts'][data_type] += 1: the read
ReadType(f) ==
    /\ feeders[f].pc = "read_type"
    /\ feeders' = [feeders EXCEPT ![f] =
           [@ EXCEPT !.pc = "write_type",
                     !.read = DictGet(
                         metadata.fields[feeders[f].normalized_key].type_counts,
                         feeders[f].data_type)]]
    /\ UNCHANGED <<metadata, disk, stats, generated, sql, mongo, now, calls, last, lock, consumer>>

\* field_data['type_counts'][data_type] += 1: the write
WriteType(f) ==
    /\ feeders[f].pc = "write_type"
    /\ metadata' = SetField(metadata, feeders[f].normalized_key,
           [metadata.fields[feeders[f].normalized_key] EXCEPT
               !.type_counts = DictSet(@, feeders[f].data_type, feeders[f].read + 1)])
    /\ feeders' = [feeders EXCEPT ![f].pc = "samples"]
    /\ UNCHANGED <<disk, stats, generated, sql, mongo, now, calls, last, lock, consumer>>

\* keep the value as a sample while fewer than five are kept
AppendSample(f) ==
    /\ feeders[f].pc = "samples"
    /\ LET field_data == metadata.fields[feeders[f].normalized_key]
       IN  metadata' =
               IF Len(field_data.sample_values) < MaxSamples
                  /\ ~ValueInSamples(feeders[f].value, field_data.sample_values)
               THEN SetField(metadata, feeders[f].normalized_key,
                        [field_data EXCEPT !.sample_values =
                            Append(@, Truncate100(feeders[f].value.s))])
               ELSE metadata
    /\ feeders' = [feeders EXCEPT ![f].pc = "release"]
    /\ UNCHANGED <<disk, stats, generated, sql, mongo, now, calls, last, lock, consumer>>

\* with self.lock: exit, and the method returns
ReleaseLock(f) ==
    /\ feeders[f].pc = "release"
    /\ lock' = 0
    /\ feeders' = [feeders EXCEPT ![f] =
           [Idle EXCEPT !.field_data = feeders[f].field_data,
                        !.ret = feeders[f].ret,
                        !.returned = feeders[f].returned + 1]]
    /\ calls' = [calls EXCEPT
           !.increments =
               IF feeders[f].method = "increment_total_records" THEN @ + 1 ELSE @,
           !.updates =
               IF feeders[f].method = "update_field_stats"
               THEN [@ EXCEPT ![feeders[f].normalized_key] = @ + 1] ELSE @]
    /\ UNCHANGED <<metadata, disk, stats, generated, sql, mongo, now, last, consumer>>

NextStore ==
    \E f \in Feeders :
        \/ \E normalized_key \in StoreKeys, value \in StoreValues :
               CallUpdateFieldStats(f, normalized_key, value)
        \/ CallIncrementTotalRecords(f)
        \/ CallAddNormalizationRule(f, "userName", "username")
        \/ \E normalized_key \in StoreKeys : CallDecidePlacement(f, normalized_key)
        \/ \E normalized_key \in StoreKeys : GetFieldTypeStability(f, normalized_key)
        \/ AcquireLock(f)
        \/ ReadTotal(f)
        \/ WriteTotal(f)
        \/ SetRule(f)
        \/ DecidePlacement(f)
        \/ SetDecision(f)
        \/ CreateField(f)
        \/ ReadAppearances(f)
        \/ WriteAppearances(f)
        \/ CreateType(f)
        \/ ReadType(f)
        \/ WriteType(f)
        \/ AppendSample(f)
        \/ ReleaseLock(f)

\* the store of a new pipeline, or one loaded from a file that holds a
\* decision for username
InitStore == \E file \in {[exists |-> FALSE], FileEdited} : InitWith(file)

SpecStore == InitStore /\ [][NextStore]_vars

\* ------------------------------------------------------------------------
\* MetadataStore.save called by one thread while others update the store
\* ------------------------------------------------------------------------

\* save() without "with self.lock": the thread goes straight to open
CallSave_unlocked(f) ==
    /\ Enter(f, "save")
    /\ feeders' = [feeders EXCEPT ![f] =
           [@ EXCEPT !.pc = "open", !.method = "save"]]

\* thread f calls save()
CallSave(f) ==
    /\ Enter(f, "save")
    /\ feeders' = [feeders EXCEPT ![f] =
           [@ EXCEPT !.pc = "acquire", !.method = "save"]]

\* with open(self.storage_file, 'w') as f: the file is cut to nothing
OpenFile(f) ==
    /\ feeders[f].pc = "open"
    /\ disk' = TruncatedFile
    /\ feeders' = [feeders EXCEPT ![f].pc = "dump"]
    /\ UNCHANGED <<metadata, stats, generated, sql, mongo, now, calls, last, lock, consumer>>

\* json.dump(self.metadata, f, indent=2), and the file is closed
JsonDump(f) ==
    /\ feeders[f].pc = "dump"
    /\ disk' = save(metadata)
    /\ feeders' = [feeders EXCEPT ![f].pc = "release"]
    /\ UNCHANGED <<metadata, stats, generated, sql, mongo, now, calls, last, lock, consumer>>

NextSave ==
    \E f \in Feeders :
        \/ \E normalized_key \in StoreKeys, value \in StoreValues :
               CallUpdateFieldStats(f, normalized_key, value)
        \/ CallIncrementTotalRecords(f)
        \/ CallSave(f)
        \/ AcquireLock(f)
        \/ ReadTotal(f)
        \/ WriteTotal(f)
        \/ CreateField(f)
        \/ ReadAppearances(f)
        \/ WriteAppearances(f)
        \/ CreateType(f)
        \/ ReadType(f)
        \/ WriteType(f)
        \/ AppendSample(f)
        \/ OpenFile(f)
        \/ JsonDump(f)
        \/ ReleaseLock(f)

SpecSave == InitStore /\ [][NextSave]_vars

\* ------------------------------------------------------------------------
\* Properties
\* ------------------------------------------------------------------------

\* field_data['appearances'], 0 for a key without a field record
Appearances(md, k) ==
    IF k \in DOMAIN md.fields THEN md.fields[k].appearances ELSE 0

\* the step is a call of ingest_record
IngestStep == calls'.ingest = calls.ingest + 1

\* the keys decide_placement was called for in the call l
Decided(l) == {l.placements[i][1] : i \in 1..Len(l.placements)}

\* the window of the drift score
DriftWindow == 50

\* drift_score of a field seen at most DriftWindow times, as the fraction
\* <<numerator, denominator>>: one minus the share of the dominant type in
\* its appearances
drift_score(md, k) ==
    LET counts == md.fields[k].type_counts
    IN  <<SumCounts(counts) - counts[DominantIndex(counts)][2], SumCounts(counts)>>

\* drift_score >= MODERATE_DRIFT_THRESHOLD (a percentage)
ModerateDrift(md, k) ==
    /\ k \in DOMAIN md.fields
    /\ md.fields[k].appearances <= DriftWindow
    /\ 100 * drift_score(md, k)[1] >= MODERATE_DRIFT_THRESHOLD * drift_score(md, k)[2]

\* the quarantine flag of a field
Quarantined(md, k) ==
    /\ k \in DOMAIN md.fields
    /\ "quarantined" \in DOMAIN md.fields[k]
    /\ md.fields[k].quarantined = TRUE

\* the sys_ingested_at values of the rows of the table
SysValues(db) == {DictGet(db.rows[i], "sys_ingested_at") : i \in 1..Len(db.rows)}

C2_DriftDowngrades ==
    [][\A k \in DOMAIN metadata.placement_decisions :
           (/\ metadata.placement_decisions[k].backend = "SQL"
            /\ IngestStep
            /\ k \in Decided(last')
            /\ ModerateDrift(metadata', k))
               => /\ DictGet(last'.placements, k) = "MongoDB"
                  /\ k \in DOMAIN metadata'.placement_decisions
                  /\ metadata'.placement_decisions[k].backend = "MongoDB"
                  /\ Quarantined(metadata', k)]_vars

\* C3: a decide_placement call for a non-mandatory key that has no stored
\* decision and at least MIN_OBSERVATIONS appearances completes without
\* error, returns SQL, MongoDB or Both and stores that decision; the
\* ingest_record that makes the call does not fail in the placement step.
C3_FirstDecisionCompletes ==
    [][IngestStep =>
           \A k \in Decided(last') \ mandatory_fields :
               (/\ k \notin DOMAIN metadata.placement_decisions
                /\ Appearances(metadata', k) >= MIN_OBSERVATIONS)
                   => /\ ~last'.raised
                      /\ DictGet(last'.placements, k) \in {"SQL", "MongoDB", "Both"}
                      /\ k \in DOMAIN metadata'.placement_decisions
                      /\ metadata'.placement_decisions[k].backend =
                             DictGet(last'.placements, k)]_vars

\* C4 as stated: no decision is stored for a key whose field has fewer than
\* MIN_OBSERVATIONS appearances, a key without a field record counting as 0.
C4_NoDecisionBeforeMinObservations ==
    \A k \in DOMAIN metadata.placement_decisions :
        Appearances(metadata, k) >= MIN_OBSERVATIONS

\* C4, for the keys that are not mandatory: after every step no decision is
\* stored for such a key with fewer than MIN_OBSERVATIONS appearances, and a
\* decide_placement call on such a key returns MongoDB and stores nothing.
C4_NoDecisionBeforeMinObservationsUnlessMandatory ==
    [][/\ \A k \in DOMAIN metadata'.placement_decisions \ mandatory_fields :
              Appearances(metadata', k) >= MIN_OBSERVATIONS
       /\ IngestStep =>
              \A k \in Decided(last') \ mandatory_fields :
                  Appearances(metadata', k) < MIN_OBSERVATIONS
                      => /\ DictGet(last'.placements, k) = "MongoDB"
                         /\ k \notin DOMAIN metadata'.placement_decisions]_vars

\* decide_placement has just deferred age, seen fewer than MIN_OBSERVATIONS
\* times, while the mandatory username has its decision
C4_Witness ==
    /\ last.op = "ingest"
    /\ "age" \in Decided(last)
    /\ DictGet(last.placements, "age") = "MongoDB"
    /\ Appearances(metadata, "age") \in 1..(MIN_OBSERVATIONS - 1)
    /\ "age" \notin DOMAIN metadata.placement_decisions
    /\ "username" \in DOMAIN metadata.placement_decisions

\* C5: a stored decision for a mandatory key has backend Both, whatever the
\* frequency, type stability or drift of the key.
C5_MandatoryIsBoth ==
    \A k \in DOMAIN metadata.placement_decisions \cap mandatory_fields :
        metadata.placement_decisions[k].backend = "Both"

\* the three mandatory keys are decided, username being absent from some of
\* the records and t_stamp having no statistics at all
C5_Witness ==
    /\ mandatory_fields \subseteq DOMAIN metadata.placement_decisions
    /\ "username" \in DOMAIN metadata.fields
    /\ metadata.fields["username"].appearances < metadata.total_records
    /\ "t_stamp" \notin DOMAIN metadata.fields

\* C6: when _split_by_placement returns, every mandatory field present in
\* the record is in the sql_record and in the mongo_record it returns,
\* whatever decision is stored for the field.
C6_MandatoryInBothRecords ==
    (last.op = "ingest" /\ ~last.raised) =>
        \A m \in mandatory_fields :
            DictHas(last.record, m) =>
                /\ DictHas(last.sql_record, m)
                /\ DictHas(last.mongo_record, m)

\* username is stored as MongoDB and t_stamp as SQL, decide_placement has
\* returned just that, and both are in both records
C6_Witness ==
    /\ last.op = "ingest"
    /\ ~last.raised
    /\ "username" \in Decided(last)
    /\ DictGet(last.placements, "username") = "MongoDB"
    /\ DictGet(last.placements, "t_stamp") = "SQL"
    /\ DictHas(last.sql_record, "username")
    /\ DictHas(last.mongo_record, "t_stamp")

\* C7: whenever no thread is inside update_field_stats (the lock is free),
\* the type_counts of every field add up to its appearances.
C7_TypeCountsAddUp ==
    lock = 0 =>
        \A k \in DOMAIN metadata.fields :
            SumCounts(metadata.fields[k].type_counts) = metadata.fields[k].appearances

\* every thread has returned from a call, and age has been seen with two
\* types
C7_Witness ==
    /\ lock = 0
    /\ \A f \in Feeders : feeders[f].pc = "idle" /\ feeders[f].returned >= 1
    /\ "age" \in DOMAIN metadata.fields
    /\ Len(metadata.fields["age"].type_counts) = 2
    /\ metadata.fields["age"].appearances >= 2

\* C8: the appearances of every tracked field are at least 0 and at most
\* total_records, so that its frequency lies between 0 and 1.
C8_FrequencyAtMostOne ==
    \A k \in DOMAIN metadata.fields :
        /\ 0 <= metadata.fields[k].appearances
        /\ metadata.fields[k].appearances <= metadata.total_records

\* C9: ingest_record returns True exactly when one at least of the inserts it
\* attempted, relational or document, reported success.
C9_TrueIffOneInsertSucceeded ==
    last.op = "ingest" =>
        (last.ret <=> \/ (last.sql_attempted /\ last.sql_success)
                      \/ (last.mongo_attempted /\ last.mongo_success))

\* ingest_record returned True for a record the table refused and the
\* collection took
C9_Witness ==
    /\ last.op = "ingest"
    /\ last.ret
    /\ last.sql_attempted
    /\ ~last.sql_success
    /\ last.mongo_attempted
    /\ last.mongo_success

\* C10: after every step no two rows of the table have the same
\* sys_ingested_at (the table starts empty), and an insert whose
\* sys_ingested_at is that of a stored row returns False and leaves the rows
\* as they are.
C10_SysIngestedAtUnique ==
    [][/\ \A i, j \in 1..Len(sql'.rows) :
              i # j => DictGet(sql'.rows[i], "sys_ingested_at") #
                           DictGet(sql'.rows[j], "sys_ingested_at")
       /\ (/\ calls' # calls
           /\ last'.sql_attempted
           /\ DictHas(last'.sql_record, "sys_ingested_at")
           /\ DictGet(last'.sql_record, "sys_ingested_at") \in SysValues(sql))
              => (~last'.sql_success /\ sql'.rows = sql.rows)]_vars

\* insert_record has just refused a record that has a username and the
\* sys_ingested_at of a stored row
C10_Witness ==
    /\ last.op = "insert"
    /\ ~last.ret
    /\ Len(sql.rows) >= 1
    /\ DictHas(last.sql_record, "username")
    /\ DictGet(last.sql_record, "sys_ingested_at") \in SysValues(sql)

\* C11: within one pipeline instance, the sys_ingested_at generated by a
\* call differs from the one generated by every other call of the instance,
\* also after a record whose ingestion failed and when the clock has not
\* advanced.
C11_SysIngestedAtUniqueInProcess ==
    \A i, j \in 1..Len(generated) :
        (i # j /\ generated[i][1] = generated[j][1])
            => generated[i][2] # generated[j][2]

\* C12: a sys_ingested_at generated by one pipeline instance never equals one
\* generated by another instance (the pipeline restarted), even when both
\* read the same clock instant.
C12_SysIngestedAtPartitioned ==
    \A i, j \in 1..Len(generated) :
        generated[i][1] # generated[j][1] => generated[i][2] # generated[j][2]

\* C13: whatever happens during save, the process killed included, the
\* metadata file afterwards is the complete previous checkpoint or the
\* complete new one.
C13_SaveIsAtomic ==
    [][disk' \in {disk, save(metadata), save(metadata')}]_vars

\* C14: no ten consecutive ingest_record calls go by without a save of the
\* metadata, and close saves it.
C14_CheckpointEveryTen ==
    /\ calls.unsaved < SaveEvery
    /\ last.op = "close" => (last.saved /\ disk = save(metadata))

\* C15: the dictionary loaded after a close is the dictionary that was
\* saved; as long as every stop was a close, total_records is the number of
\* records ingested by all the pipeline instances, and a decision stored
\* before a step is left as it is and returned by decide_placement.
C15_SaveThenLoad ==
    [][/\ (calls'.starts = calls.starts + 1 /\ calls'.crashes = calls.crashes)
              => (metadata' = metadata /\ load_metadata(disk') = metadata)
       /\ calls'.crashes = 0 =>
              /\ metadata'.total_records = calls'.ingest
              /\ \A k \in DOMAIN metadata.placement_decisions :
                     /\ k \in DOMAIN metadata'.placement_decisions
                     /\ metadata'.placement_decisions[k] =
                            metadata.placement_decisions[k]
                     /\ (IngestStep /\ k \in Decided(last'))
                            => DictGet(last'.placements, k) =
                                   metadata.placement_decisions[k].backend]_vars

\* two records before a close, one after it by the next pipeline instance:
\* total_records is 3, username has been counted on, and its decision is
\* the one taken by the first instance
C15_Witness ==
    /\ calls.starts = 1
    /\ calls.crashes = 0
    /\ last.op = "ingest"
    /\ stats.total_processed = 1
    /\ metadata.total_records = 3
    /\ "username" \in DOMAIN metadata.fields
    /\ metadata.fields["username"].appearances = 3
    /\ "username" \in Decided(last)
    /\ DictGet(last.placements, "username") = "Both"
    /\ disk = save([metadata EXCEPT
                       !.total_records = 2,
                       !.fields = [k \in DOMAIN metadata.fields |->
                           [metadata.fields[k] EXCEPT
                               !.appearances = 2,
                               !.type_counts = [i \in 1..Len(@) |-> <<@[i][1], 2>>],
                               !.sample_values =
                                   IF k = "age" THEN <<"25", "25">> ELSE @]]])

\* the threads that have done the write of a read-modify-write and have not
\* returned yet
PastWriteTotal ==
    {f \in Feeders : feeders[f].method = "increment_total_records"
                     /\ feeders[f].pc = "release"}

PastWriteAppearances(k) ==
    {f \in Feeders :
        /\ feeders[f].method = "update_field_stats"
        /\ feeders[f].normalized_key = k
        /\ feeders[f].pc \in {"create_type", "read_type", "write_type",
                              "samples", "release"}}

\* C16: with threads calling the methods of the store concurrently, no
\* update is lost: total_records is the number it was loaded with plus the
\* increment_total_records calls that have done their write, and the
\* appearances of a key are those loaded plus the update_field_stats calls
\* for the key that have done theirs; with the lock free these are the
\* calls that have returned.
C16_NoLostUpdate ==
    /\ metadata.total_records =
           load_metadata(disk).total_records + calls.increments
               + Cardinality(PastWriteTotal)
    /\ \A k \in StoreKeys :
           Appearances(metadata, k) =
               Appearances(load_metadata(disk), k) + calls.updates[k]
                   + Cardinality(PastWriteAppearances(k))
    /\ lock = 0 => PastWriteTotal = {} /\ \A k \in StoreKeys : PastWriteAppearances(k) = {}

\* two threads have each returned from one of the two counting methods
C16_Witness ==
    /\ lock = 0
    /\ \A f \in Feeders : feeders[f].pc = "idle" /\ feeders[f].returned = 1
    /\ \/ calls.increments = 2
       \/ calls.updates["age"] = 2
    /\ \/ metadata.total_records = load_metadata(disk).total_records + 2
       \/ Appearances(metadata, "age") = Appearances(load_metadata(disk), "age") + 2

\* C17: the reads of a field record by get_field_type_stability and by
\* decide_placement exclude the updates: the record a read returns is never
\* one update_field_stats has only partly updated, so its type_counts add up
\* to its appearances.
C17_ReadsSeeWholeUpdates ==
    \A f \in Feeders :
        \A i \in 1..Len(feeders[f].field_data) :
            SumCounts(feeders[f].field_data[i].type_counts)
                = feeders[f].field_data[i].appearances

\* C18: no step of any thread turns a stored decision of MongoDB into SQL.
C18_NeverMongoToSql ==
    [][\A k \in DOMAIN metadata.placement_decisions :
           metadata.placement_decisions[k].backend = "MongoDB"
               => /\ k \in DOMAIN metadata'.placement_decisions
                  /\ metadata'.placement_decisions[k].backend # "SQL"]_vars

\* username is stored as MongoDB, one thread has been returned that by
\* decide_placement and the other has updated the statistics of username
C18_Witness ==
    /\ "username" \in DOMAIN metadata.placement_decisions
    /\ metadata.placement_decisions["username"].backend = "MongoDB"
    /\ calls.updates["username"] = 1
    /\ \E f \in Feeders :
           /\ feeders[f].pc = "idle"
           /\ feeders[f].normalized_key = "username"
           /\ feeders[f].ret = "MongoDB"

\* C20: when ingest_record hands the table a record whose sys_ingested_at is
\* that of a stored row, the rejected insert is counted in stats['errors']
\* and the insert into the collection is attempted all the same.
C20_DuplicateCountedAsError ==
    [][(/\ IngestStep
        /\ last'.sql_attempted
        /\ DictHas(last'.sql_record, "sys_ingested_at")
        /\ DictGet(last'.sql_record, "sys_ingested_at") \in SysValues(sql))
           => /\ ~last'.sql_success
              /\ stats'.errors = stats.errors + 1
              /\ last'.mongo_attempted]_vars

\* C19: a pipeline starts although one of the two backends is out of reach
\* when it starts (here: the database file cannot be opened while the MongoDB
\* server answers), and with the collection disabled every record that is
\* ingested goes to the table alone.
C19_StartsWithOneBackend ==
    /\ (last.op = "init" /\ mongo.up) => ~last.raised
    /\ (last.op = "ingest" /\ ~mongo.up) =>
           (~last.mongo_success /\ last.ret = last.sql_success)

\* C21: after a split that ran to its end, every field of the record other
\* than the mandatory ones is in the record of the backend decide_placement
\* returned for it and in no other: SQL in sql_record only, MongoDB in
\* mongo_record only, Both in both; sql_record holds a list as its JSON text,
\* mongo_record holds the value itself.
C21_RoutedByPlacement ==
    (last.op = "ingest" /\ ~last.raised) =>
        \A i \in 1..Len(last.record) :
            LET k == last.record[i][1]
                v == last.record[i][2]
                p == DictGet(last.placements, k)
                in_sql == /\ DictHas(last.sql_record, k)
                          /\ DictGet(last.sql_record, k) =
                                 IF v.py \in {"dict", "list"}
                                 THEN StrV(v.js, "plain") ELSE v
                in_mongo == /\ DictHas(last.mongo_record, k)
                            /\ DictGet(last.mongo_record, k) = v
            IN  k \notin mandatory_fields =>
                    /\ p \in {"SQL", "MongoDB", "Both"}
                    /\ p = "SQL" =>
                           (in_sql /\ ~DictHas(last.mongo_record, k))
                    /\ p = "MongoDB" =>
                           (in_mongo /\ ~DictHas(last.sql_record, k))
                    /\ p = "Both" => (in_sql /\ in_mongo)

\* age went to the table alone and the list tags to both, as JSON text to
\* the table
C21_Witness ==
    /\ last.op = "ingest"
    /\ ~last.raised
    /\ DictHas(last.placements, "tags")
    /\ DictGet(last.placements, "age") = "SQL"
    /\ DictGet(last.placements, "tags") = "Both"
    /\ DictGet(last.sql_record, "tags") = StrV("[\"a\", \"b\"]", "plain")
    /\ DictGet(last.mongo_record, "tags").py = "list"
    /\ ~DictHas(last.mongo_record, "age")

\* C22: the sample_values of every field are at most five, each of at most
\* 100 characters, and no two of them are equal.
C22_SamplesBoundedAndDistinct ==
    \A k \in DOMAIN metadata.fields :
        LET samples == metadata.fields[k].sample_values
        IN  /\ Len(samples) <= MaxSamples
            /\ \A i \in 1..Len(samples) : Len(samples[i]) <= 100
            /\ \A i, j \in 1..Len(samples) : i # j => samples[i] # samples[j]

\* C23: once is_running is false no batch is begun; stop changes nothing but
\* the flag, so the batch at work goes on to its end; and whenever
\* consume_continuous has come to its end, by break, after its last batch or
\* by an interrupt in the middle of a record, the metadata file holds the
\* store as it is and the pipeline is closed.
C23_StopBetweenBatches ==
    [][/\ (consumer.pc # "new" /\ ~consumer.is_running)
              => consumer'.attempted = consumer.attempted
       /\ (consumer.is_running /\ ~consumer'.is_running /\ consumer'.pc # "closed")
              => /\ UNCHANGED <<metadata, disk, stats, sql, mongo>>
                 /\ consumer'.pc = consumer.pc
                 /\ consumer'.events = consumer.events
       /\ consumer'.pc = "closed"
              => (disk' = save(metadata') /\ last'.op = "close")]_vars

\* stop was called during the first of two batches, a record was ingested
\* after that in the same batch, no second batch was begun, and the file
\* holds the store
C23_Witness ==
    /\ consumer.pc = "closed"
    /\ consumer.stopped
    /\ consumer.after_stop >= 1
    /\ consumer.attempted = 1
    /\ consumer.attempted < MaxBatches
    /\ metadata.total_records >= 1
    /\ disk = save(metadata)

\* C24: consume_continuous that was neither stopped nor interrupted ends
\* only after total_batches batches were begun; an exception in a batch
\* sends the loop to its next turn, and a line that is not JSON leaves the
\* pipeline as it is and the batch at work.
C24_ErrorsDoNotEndConsumption ==
    [][/\ (consumer'.pc = "closed" /\ consumer'.is_running)
              => consumer'.attempted = MaxBatches
       /\ consumer'.events = Append(consumer.events, "error")
              => /\ consumer'.pc = "loop"
                 /\ consumer'.batch_num = consumer.batch_num + 1
                 /\ consumer'.is_running = consumer.is_running
       /\ consumer'.events = Append(consumer.events, "malformed")
              => /\ consumer'.pc = "batch"
                 /\ UNCHANGED <<metadata, stats, sql, mongo>>]_vars

\* the first batch broke off with an exception, the second gave a line that
\* is not JSON and then a record, which was ingested
C24_Witness ==
    /\ consumer.pc = "closed"
    /\ consumer.is_running
    /\ consumer.failed >= 1
    /\ consumer.attempted = MaxBatches
    /\ consumer.events = <<"malformed", "record">>
    /\ last.op = "close"
    /\ metadata.total_records = 1

\* C25: normalizing a key twice gives what normalizing it once gives, for
\* every raw key of the record just ingested and for the key it was tracked
\* under; and every canonical name of a semantic rule is normalized to
\* itself.
C25_NormalizeIdempotent ==
    /\ \A i \in 1..Len(last.raw) :
           LET k == last.raw[i][1]
           IN  /\ normalize(normalize(k)) = normalize(k)
               /\ last.op = "ingest" => DictHas(last.record, normalize(k))
    /\ \A k \in DOMAIN metadata.fields : normalize(k) = k
    /\ \A k \in DOMAIN metadata.normalization_rules :
           normalize(metadata.normalization_rules[k]) = metadata.normalization_rules[k]
    /\ \A c \in CanonicalKeys : normalize(c) = c

\* GPSLatitude was ingested as gps_lat, which is normalized to itself
C25_Witness ==
    /\ last.op = "ingest"
    /\ last.raw = KeyRecord("GPSLatitude")
    /\ DictHas(last.record, "gps_lat")
    /\ "GPSLatitude" \in DOMAIN metadata.normalization_rules
    /\ metadata.normalization_rules["GPSLatitude"] = "gps_lat"
    /\ normalize("gps_lat") = "gps_lat"

\* C26: once records with UUIDs under device_id have been ingested,
\* should_be_unique("device_id") is true, and the column device_id of the
\* table is VARCHAR(36) under a unique index.
C26_DeviceIdUnique ==
    (/\ last.op = "ingest"
     /\ DictHas(last.record, "device_id")
     /\ get_field_type_stability(metadata, "device_id").dominant_type = "uuid")
        => /\ should_be_unique(metadata, "device_id")
           /\ "device_id" \in DOMAIN sql.columns
           /\ sql.columns["device_id"] = "VARCHAR(36)"
           /\ "device_id" \in sql.unique

C28_EveryRecordCounted ==
    [][IngestStep =>
           /\ \/ /\ stats'.total_processed = stats.total_processed + 1
                 /\ stats'.errors = stats.errors
              \/ /\ stats'.total_processed = stats.total_processed
                 /\ stats'.errors = stats.errors + 1
           /\ metadata'.total_records = stats'.total_processed + stats'.errors
           /\ metadata'.total_records = metadata.total_records + 1]_vars

\* a record has just failed in decide_placement, after it was counted, and
\* others were processed before it
C28_Witness ==
    /\ last.op = "ingest"
    /\ last.raised
    /\ stats.errors = 1
    /\ stats.total_processed >= 1
    /\ metadata.total_records = stats.total_processed + 1

\* C29: when ingest_record returns True, every field of the normalized
\* record is, with its value, in the record of a backend whose insert
\* succeeded (a list in the table as its JSON text).
C29_NoFieldLost ==
    (last.op = "ingest" /\ last.ret) =>
        \A i \in 1..Len(last.record) :
            LET k == last.record[i][1]
                v == last.record[i][2]
            IN  \/ /\ last.sql_success
                   /\ DictHas(last.sql_record, k)
                   /\ DictGet(last.sql_record, k) =
                          IF v.py \in {"dict", "list"} THEN StrV(v.js, "plain") ELSE v
                \/ /\ last.mongo_success
                   /\ DictHas(last.mongo_record, k)
                   /\ DictGet(last.mongo_record, k) = v

\* C30: with threads updating the store while another saves it, the document
\* in the file is the dictionary as it was with no update under way: what
\* save has written reads back as the dictionary the saving thread holds
\* under the lock, no other thread is inside a method of the store at that
\* moment, and in every saved document the type_counts of each field add up
\* to its appearances.
C30_SaveWritesWholeUpdates ==
    /\ "content" \in DOMAIN disk =>
           \A k \in DOMAIN load_metadata(disk).fields :
               SumCounts(load_metadata(disk).fields[k].type_counts)
                   = load_metadata(disk).fields[k].appearances
    /\ \A f \in Feeders :
           (feeders[f].method = "save" /\ feeders[f].pc = "release") =>
               /\ lock = f
               /\ load_metadata(disk) = metadata
               /\ \A g \in Feeders \ {f} : feeders[g].pc \in {"idle", "acquire"}

\* a thread has written the file and still holds the lock while another
\* waits for it to update a field; the saved document holds the statistics
\* of age
C30_Witness ==
    /\ \E f \in Feeders : feeders[f].method = "save" /\ feeders[f].pc = "release"
    /\ \E g \in Feeders :
           /\ feeders[g].method = "update_field_stats"
           /\ feeders[g].pc = "acquire"
    /\ "content" \in DOMAIN disk
    /\ "age" \in DOMAIN load_metadata(disk).fields
    /\ load_metadata(disk).fields["age"].appearances >= 1

====
